---- MODULE Spec2Model ----
(***************************************************************************)
(* The tract store of the grant-maker: database.py (schema, reporting view *)
(* vw_tract_profile, reset_db), the two rebuild entry points etl.run_etl   *)
(* and simulation.run_simulation, and the dashboard's read of the view.    *)
(*                                                                         *)
(* Scores (overall_svi, a float in the code) are held in hundredths:       *)
(* 0.75 is 75, the CDC sentinel -999 is -99900.  Percentages and rates are *)
(* held in tenths of a percent: 12.3 is 123.                               *)
(***************************************************************************)
EXTENDS Integers, Sequences, FiniteSets, TLC

VARIABLES
    db,         \* the SQLite file at DB_PATH, as other connections see it
    pc,         \* position of the rebuild process
    prog,       \* which entry point runs: "none", "etl", "sim"
    tracts,     \* local `tracts`: the geography fetch result
    demos,      \* local `demos`: geoid -> demographic profile
    df,         \* the loader's local `df`: the SVI file as read
    svi_map,    \* local `svi_map` / `real_svi_data`: fips -> score
    i,          \* index of the next element of the running for-loop
    tx,         \* the rebuild connection's open transaction (uncommitted rows)
    tract_ids,  \* run_simulation's list of (tid, svi)
    log,        \* warnings printed by the fetchers of the current run
    app         \* the dashboard's script run: its status and its df

vars == <<db, pc, prog, tracts, demos, df, svi_map, i, tx, tract_ids, log, app>>

----------------------------------------------------------------------------
(* Bounds of the model *)

MaxFeatures == 2      \* features in one geography response
MaxAcsRows == 1       \* data rows in one ACS response
MaxCsvRows == 1       \* data rows in the SVI file
NumAssetTypes == 1    \* entries of the asset vocabulary the sampler explores
SampleStep == 100     \* grid of the values random.uniform is sampled at
MaxViewAssets == 4    \* asset rows of a store drawn for the view

(* Program constants *)

TractLen == 11        \* len(geoid) == 11
DefaultSvi == 50      \* svi_map.get(tid, 0.5)
HighSvi == 75         \* overall_svi > 0.75
LowSvi == 25          \* overall_svi < 0.25
DesertBelow == 2      \* COUNT(DISTINCT a.asset_id) < 2
HubFrom == 4          \* COUNT(DISTINCT a.asset_id) >= 4

Min(a, b) == IF a < b THEN a ELSE b

SeqsUpTo(S, n) == UNION {[1..k -> S] : k \in 0..n}

Range(f) == {f[x] : x \in DOMAIN f}

EmptyDict == [k \in {} |-> 0]

(* d.get(k, default) *)
Get(d, k, default) == IF k \in DOMAIN d THEN d[k] ELSE default

(* d[k] = v on a dict *)
Put(d, k, v) == [x \in (DOMAIN d) \cup {k} |-> IF x = k THEN v ELSE d[x]]

----------------------------------------------------------------------------
(* database.py *)

EmptyTables == [raw_tracts |-> {}, raw_assets |-> {}]

(* No file at DB_PATH. *)
NoDb == [exists |-> FALSE, tables |-> FALSE, view |-> FALSE,
         raw_tracts |-> {}, raw_assets |-> {}]

(* sqlite3.connect(DB_PATH): creates an empty database file when none exists *)
get_connection(d) == IF d.exists THEN d ELSE [NoDb EXCEPT !.exists = TRUE]

(* CREATE TABLE IF NOT EXISTS ...; DROP VIEW IF EXISTS; CREATE VIEW; commit *)
init_db(d) ==
    LET c == get_connection(d)
    IN  [c EXCEPT !.tables = TRUE, !.view = TRUE]

(* os.remove(DB_PATH) when the file exists *)
RemoveFile(d) == IF d.exists THEN NoDb ELSE d

(* the store right after a reset: both tables empty, the view defined *)
FreshDb == [exists |-> TRUE, tables |-> TRUE, view |-> TRUE,
            raw_tracts |-> {}, raw_assets |-> {}]

reset_db_keeping_file(d) == init_db(d)

(* reset_db *)
reset_db(d) == init_db(RemoveFile(d))

(* A value of the REAL column overall_svi: a number, or NULL (what sqlite3
   stores when it is handed a NaN) *)
Real(v) == [null |-> FALSE, v |-> v]

Null == [null |-> TRUE, v |-> 0]

(* x > c and x < c in SQL: not true when x is NULL *)
SqlGt(x, c) == ~x.null /\ x.v > c

SqlLt(x, c) == ~x.null /\ x.v < c

context_tag_no_gap(svi, n) ==
    IF SqlGt(svi, HighSvi) /\ n < DesertBelow THEN "Urgent Desert"
    ELSE IF SqlGt(svi, HighSvi) THEN "High-Capacity Hub"
    ELSE IF SqlLt(svi, LowSvi) THEN "Stable / Low Need"
    ELSE "General Opportunity"

(* CASE ... END as context_tag, first match wins *)
context_tag(svi, n) ==
    IF SqlGt(svi, HighSvi) /\ n < DesertBelow THEN "Urgent Desert"
    ELSE IF SqlGt(svi, HighSvi) /\ n >= HubFrom THEN "High-Capacity Hub"
    ELSE IF SqlLt(svi, LowSvi) THEN "Stable / Low Need"
    ELSE "General Opportunity"

count_assets_all(t, assets) == Cardinality({a.asset_id : a \in assets})

(* COUNT(DISTINCT a.asset_id) over LEFT JOIN raw_assets a ON t.tract_id = a.tract_id *)
count_assets(t, assets) ==
    Cardinality({a.asset_id : a \in {b \in assets : b.tract_id = t.tract_id}})

(* ORDER BY x DESC puts u strictly before t: NULL sorts as the smallest value *)
SortsBeforeDesc(u, t) ==
    IF u.null THEN FALSE ELSE IF t.null THEN TRUE ELSE u.v > t.v

local_svi_rank_partitioned(t, rows) ==
    1 + Cardinality({u \in {w \in rows : w.tract_id = t.tract_id} :
                       SortsBeforeDesc(u.overall_svi, t.overall_svi)})

local_svi_rank_asc(t, rows) ==
    1 + Cardinality({u \in rows : SortsBeforeDesc(t.overall_svi, u.overall_svi)})

(* RANK() OVER (ORDER BY t.overall_svi DESC): one more than the number of
   rows that sort strictly before this one; peers share a rank *)
local_svi_rank(t, rows) ==
    1 + Cardinality({u \in rows : SortsBeforeDesc(u.overall_svi, t.overall_svi)})

(* SELECT ... FROM raw_tracts t LEFT JOIN raw_assets a ... GROUP BY t.tract_id *)
vw_tract_profile(d) ==
    { [tract_id |-> t.tract_id,
       name |-> t.name,
       geometry |-> t.geometry,
       overall_svi |-> t.overall_svi,
       housing_svi |-> t.housing_svi,
       demographics_json |-> t.demographics_json,
       local_svi_rank |-> local_svi_rank(t, d.raw_tracts),
       count_assets |-> count_assets(t, d.raw_assets),
       context_tag |-> context_tag(t.overall_svi, count_assets(t, d.raw_assets))]
      : t \in d.raw_tracts }

----------------------------------------------------------------------------
(* The geography service and the two geography fetchers *)

(* Features a TIGERweb response may carry: two tracts, a county-level and a
   block-group-level GEOID, and a feature without GEOID ("" stands for the
   missing value: like None it is falsy in `if geoid and ...`) *)
FeaturePool ==
    { [GEOID |-> "36045060100", NAME |-> "601", geometry |-> "poly601"],
      [GEOID |-> "36049000200", NAME |-> "2", geometry |-> "poly2"],
      [GEOID |-> "36045", NAME |-> "Jefferson", geometry |-> "polyJ"],
      [GEOID |-> "360450601001", NAME |-> "BG 1", geometry |-> "polyBG"],
      [GEOID |-> "", NAME |-> "none", geometry |-> "polyN"] }

(* A response: ok = FALSE is a network error or a body that is not JSON *)
GeoResponses ==
    {[ok |-> FALSE, features |-> <<>>]}
    \cup {[ok |-> TRUE, features |-> fs] : fs \in SeqsUpTo(FeaturePool, MaxFeatures)}

(* json.dumps of a geometry *)
json_dumps(x) == <<"json", x>>

KeepFeature(f) ==
    [geoid |-> f.GEOID, name |-> f.NAME, geometry |-> json_dumps(f.geometry)]

IsTractAnyLength(g) == g # ""

(* if geoid and len(geoid) == 11 *)
IsTract(g) == g # "" /\ Len(g) = TractLen

RECURSIVE FilterTracts(_)
FilterTracts(fs) ==
    IF fs = <<>> THEN <<>>
    ELSE (IF IsTract(Head(fs).GEOID) THEN <<KeepFeature(Head(fs))>> ELSE <<>>)
         \o FilterTracts(Tail(fs))

(* fetch_regional_tracts: the features that pass, or [] with a warning *)
fetch_regional_tracts(resp) ==
    IF resp.ok THEN [result |-> FilterTracts(resp.features), warn |-> {}]
    ELSE [result |-> <<>>, warn |-> {"Geo Error"}]

(* fetch_real_tracts: the same body, with its own warning *)
fetch_real_tracts(resp) ==
    IF resp.ok THEN [result |-> FilterTracts(resp.features), warn |-> {}]
    ELSE [result |-> <<>>, warn |-> {"Geo Fetch Error"}]

----------------------------------------------------------------------------
(* The statistical service and the two demographics fetchers *)

COUNTIES == {"045", "049", "089"}

(* A data row: the eight requested variables (a cell is <<>> when the
   service sends null or "", <<n>> otherwise; the two rates in tenths), then
   the state, county and tract fragments.  -6666 is a negative missing-data
   rate: the service's own, -666666666, takes the same path *)
AcsRowPool ==
    { [cells |-> <<<<2000>>, <<500>>, <<300>>, <<1800>>, <<100>>, <<60>>, <<52>>, <<881>>>>,
       state |-> "36", county |-> "045", tract |-> "060100"],
      [cells |-> <<<<3>>, <<1>>, <<>>, <<4>>, <<0>>, <<2>>, <<-6666>>, <<>>>>,
       state |-> "36", county |-> "049", tract |-> "000200"],
      [cells |-> <<<<0>>, <<0>>, <<0>>, <<0>>, <<0>>, <<0>>, <<>>, <<>>>>,
       state |-> "36", county |-> "045", tract |-> "060100"],
      [cells |-> <<<<>>, <<7>>, <<7>>, <<7>>, <<7>>, <<7>>, <<10>>, <<10>>>>,
       state |-> "36", county |-> "049", tract |-> "000200"],
      [cells |-> <<<<800>>, <<200>>, <<100>>, <<700>>, <<50>>, <<25>>, <<40>>, <<900>>>>,
       state |-> "36", county |-> "001", tract |-> "060100"] }

(* ok = FALSE: a network error, a body that is not JSON, or a cell that int()
   or float() rejects: each leaves the function through its except clause *)
AcsResponses ==
    {[ok |-> FALSE, rows |-> <<>>]}
    \cup {[ok |-> TRUE, rows |-> rs] : rs \in SeqsUpTo(AcsRowPool, MaxAcsRows)}

(* int(n or 0) *)
IntOr0(cell) == IF cell = <<>> THEN 0 ELSE cell[1]

(* float(x) if x else 0.0 *)
FloatOr0(cell) == IF cell = <<>> THEN 0 ELSE cell[1]

(* the integer nearest to num/den, a tie going to the even one (den > 0) *)
RoundHalfEven(num, den) ==
    LET q == num \div den
        r == num % den
    IN  IF 2 * r < den THEN q
        ELSE IF 2 * r > den THEN q + 1
        ELSE IF q % 2 = 0 THEN q ELSE q + 1

(* round((int(n or 0)/total)*100, 1), in tenths *)
pct(cell, total) ==
    IF total > 0 THEN RoundHalfEven(1000 * IntOr0(cell), total)
    ELSE RoundHalfEven(-1000 * IntOr0(cell), -total)

EtlProfile(r, total) ==
    [total_pop |-> total,
     pct_under_18 |-> pct(r.cells[2], total),
     pct_senior |-> pct(r.cells[3], total),
     pct_white |-> pct(r.cells[4], total),
     pct_black |-> pct(r.cells[5], total),
     pct_hispanic |-> pct(r.cells[6], total),
     pct_uninsured |-> FloatOr0(r.cells[7]),
     pct_broadband |-> FloatOr0(r.cells[8])]

SimProfile(r, total) ==
    [total_pop |-> total,
     pct_under_18 |-> pct(r.cells[2], total),
     pct_senior |-> pct(r.cells[3], total),
     pct_white |-> pct(r.cells[4], total),
     pct_black |-> pct(r.cells[5], total),
     pct_hispanic |-> pct(r.cells[6], total)]

(* geoid = r[-3] + r[-2] + r[-1] *)
AcsGeoid(r) == r.state \o r.county \o r.tract

(* the for-loop of fetch_acs_demographics over rows[1:] *)
RECURSIVE AcsLoop(_, _)
AcsLoop(rows, data) ==
    IF rows = <<>> THEN data
    ELSE LET r == Head(rows)
             total == IntOr0(r.cells[1])
         IN  IF r.county \notin COUNTIES \/ total = 0
             THEN AcsLoop(Tail(rows), data)
             ELSE AcsLoop(Tail(rows), Put(data, AcsGeoid(r), EtlProfile(r, total)))

fetch_acs_demographics(resp) ==
    IF resp.ok THEN AcsLoop(resp.rows, EmptyDict) ELSE EmptyDict

(* the for-loop of fetch_real_demographics: no county test *)
RECURSIVE RealDemoLoop(_, _)
RealDemoLoop(rows, data) ==
    IF rows = <<>> THEN data
    ELSE LET r == Head(rows)
             total == IntOr0(r.cells[1])
         IN  IF total = 0
             THEN RealDemoLoop(Tail(rows), data)
             ELSE RealDemoLoop(Tail(rows), Put(data, AcsGeoid(r), SimProfile(r, total)))

fetch_real_demographics(resp) ==
    IF resp.ok THEN RealDemoLoop(resp.rows, EmptyDict) ELSE EmptyDict

----------------------------------------------------------------------------
(* The SVI file and the two loaders *)

IdColPool == {"FIPS", "geoid", "Tract"}

ScoreColPool == {"RPL_THEMES", "svi", "Score"}

FipsCellPool == {"36045060100", "36049000200"}

(* Text of a score cell; "" is an empty cell, which pandas reads as NaN *)
SviCellPool == {"-999", "0", "0.8", "1", "1.5", "", "abc"}

(* The file: ok = FALSE when it is missing or unreadable *)
NoCsv == [ok |-> FALSE, columns |-> <<>>, rows |-> <<>>]

CsvFiles ==
    {NoCsv}
    \cup {[ok |-> TRUE, columns |-> <<a, b>>, rows |-> rs] :
            a \in IdColPool, b \in ScoreColPool,
            rs \in SeqsUpTo(FipsCellPool \X SviCellPool, MaxCsvRows)}

(* c.upper() *)
Upper(c) ==
    CASE c = "FIPS" -> "FIPS"
      [] c = "geoid" -> "GEOID"
      [] c = "Tract" -> "TRACT"
      [] c = "RPL_THEMES" -> "RPL_THEMES"
      [] c = "svi" -> "SVI"
      [] c = "Score" -> "SCORE"

(* float(text): the value in hundredths, NaN, or ValueError *)
ParseFloat(text) ==
    CASE text = "-999" -> [ok |-> TRUE, nan |-> FALSE, v |-> -99900]
      [] text = "0" -> [ok |-> TRUE, nan |-> FALSE, v |-> 0]
      [] text = "1" -> [ok |-> TRUE, nan |-> FALSE, v |-> 100]
      [] text = "0.8" -> [ok |-> TRUE, nan |-> FALSE, v |-> 80]
      [] text = "1.5" -> [ok |-> TRUE, nan |-> FALSE, v |-> 150]
      [] text = "" -> [ok |-> TRUE, nan |-> TRUE, v |-> 0]
      [] text = "abc" -> [ok |-> FALSE, nan |-> FALSE, v |-> 0]

FipsAliases == {"FIPS", "GEOID", "STCOFIPS"}

SviAliases == {"RPL_THEMES", "SVI", "RPL_THEMES_OVERALL"}

(* next((c for c in df.columns if c.upper() in aliases), None); "" is None *)
RECURSIVE FirstColumn(_, _)
FirstColumn(columns, aliases) ==
    IF columns = <<>> THEN ""
    ELSE IF Upper(Head(columns)) \in aliases THEN Head(columns)
    ELSE FirstColumn(Tail(columns), aliases)

(* row[col] *)
Cell(csv, row, col) ==
    row[CHOOSE k \in 1..Len(csv.columns) :
            csv.columns[k] = col /\ \A j \in 1..(k-1) : csv.columns[j] # col]

InRangeNoLower(val) == ~val.nan /\ val.v <= 100

(* if val >= 0 and val <= 1: false for NaN *)
InRange(val) == ~val.nan /\ val.v >= 0 /\ val.v <= 100

(* the for-loop of load_svi_data over df.iterrows() *)
RECURSIVE SviLoop(_, _, _, _, _)
SviLoop(csv, rows, fips_col, svi_col, m) ==
    IF rows = <<>> THEN m
    ELSE LET row == Head(rows)
             fips == Cell(csv, row, fips_col)
             val == ParseFloat(Cell(csv, row, svi_col))
         IN  IF val.ok /\ InRange(val)
             THEN SviLoop(csv, Tail(rows), fips_col, svi_col, Put(m, fips, val.v))
             ELSE SviLoop(csv, Tail(rows), fips_col, svi_col, m)

load_svi_data(csv) ==
    IF ~csv.ok THEN [result |-> EmptyDict, warn |-> {"SVI CSV Load Error"}]
    ELSE LET fips_col == FirstColumn(csv.columns, FipsAliases)
             svi_col == FirstColumn(csv.columns, SviAliases)
         IN  IF fips_col = "" \/ svi_col = ""
             THEN [result |-> EmptyDict, warn |-> {"Could not identify FIPS or SVI columns"}]
             ELSE [result |-> SviLoop(csv, csv.rows, fips_col, svi_col, EmptyDict),
                   warn |-> {}]

(* 'GEO' in c.upper() or 'FIPS' in c.upper() *)
LooksLikeGeoid(c) == c \in {"FIPS", "geoid"}

RECURSIVE FirstPossible(_)
FirstPossible(columns) ==
    IF columns = <<>> THEN ""
    ELSE IF LooksLikeGeoid(Head(columns)) THEN Head(columns)
    ELSE FirstPossible(Tail(columns))

(* df.rename(columns={possible_cols[0]: 'FIPS'}) when 'FIPS' is no column *)
RenamedColumns(columns) ==
    IF "FIPS" \in Range(columns) \/ FirstPossible(columns) = "" THEN columns
    ELSE [k \in DOMAIN columns |->
            IF columns[k] = FirstPossible(columns) THEN "FIPS" ELSE columns[k]]

(* pd.read_csv(csv_path, dtype={'FIPS': str}) reads a column named FIPS as
   text and infers the type of every other one: a column of digit strings,
   as every cell of FipsCellPool is, becomes int64, and such a key never
   equals the text tid *)
KeyOf(columns, text) ==
    [t |-> IF "FIPS" \in Range(columns) THEN "str" ELSE "int", v |-> text]

(* the inferred type of the score column: float64 when every cell parses,
   else object, where each cell stays the text it was (an empty one NaN) *)
AllParse(csv, col) ==
    \A k \in DOMAIN csv.rows : ParseFloat(Cell(csv, csv.rows[k], col)).ok

ValueOf(text, numeric) ==
    IF ParseFloat(text).nan THEN [kind |-> "nan", v |-> 0]
    ELSE IF numeric THEN [kind |-> "num", v |-> ParseFloat(text).v]
    ELSE [kind |-> "str", v |-> 0]

(* df.set_index('FIPS')['RPL_THEMES'].to_dict(): a later row replaces an
   earlier one with the same key *)
RECURSIVE ToDict(_, _, _, _, _)
ToDict(csv, rows, fips_col, numeric, m) ==
    IF rows = <<>> THEN m
    ELSE ToDict(csv, Tail(rows), fips_col, numeric,
                Put(m, KeyOf(csv.columns, Cell(csv, Head(rows), fips_col)),
                    ValueOf(Cell(csv, Head(rows), "RPL_THEMES"), numeric)))

load_svi_from_csv(csv) ==
    IF ~csv.ok THEN [result |-> EmptyDict, warn |-> {"CSV Load Failed"}]
    ELSE LET renamed == RenamedColumns(csv.columns)
         IN  IF "FIPS" \notin Range(renamed) \/ "RPL_THEMES" \notin Range(renamed)
             THEN [result |-> EmptyDict, warn |-> {"CSV Load Failed"}]
             ELSE [result |->
                     ToDict(csv, csv.rows,
                            IF "FIPS" \in Range(csv.columns) THEN "FIPS"
                            ELSE FirstPossible(csv.columns),
                            AllParse(csv, "RPL_THEMES"), EmptyDict),
                   warn |-> {}]

----------------------------------------------------------------------------
(* random *)

(* itertools.accumulate(weights) *)
RECURSIVE Accumulate(_)
Accumulate(w) ==
    IF w = <<>> THEN <<>>
    ELSE IF Len(w) = 1 THEN w
    ELSE LET a == Accumulate(SubSeq(w, 1, Len(w) - 1))
         IN  Append(a, a[Len(a)] + w[Len(w)])

(* bisect.bisect_right(a, x, lo, hi), on 0-based positions *)
RECURSIVE BisectRight(_, _, _, _)
BisectRight(a, x, lo, hi) ==
    IF lo < hi
    THEN LET mid == (lo + hi) \div 2
         IN  IF x < a[mid + 1] THEN BisectRight(a, x, lo, mid)
             ELSE BisectRight(a, x, mid + 1, hi)
    ELSE lo

(* random.choices(population, weights=weights, k=1)[0]: the outcomes over
   every draw of random() in [0,1).  x = random() * total lies in [0,total);
   the comparisons of the bisection are constant between two consecutive
   cumulative weights, so 0 and the cumulative weights below total stand for
   every x.  Weights are 100 times the code's; total > 0 is the caller's *)
Choices(population, weights) ==
    LET cum == Accumulate(weights)
        total == cum[Len(cum)]
        xs == {0} \cup {c \in Range(cum) : 0 < c /\ c < total}
    IN  {population[BisectRight(cum, x, 0, Len(population) - 1) + 1] : x \in xs}

(* round(random.uniform(lo, hi), 2), sampled at the ends of the interval
   and on a grid of SampleStep hundredths *)
UniformRound2(lo, hi) == {s \in lo..hi : s = lo \/ s = hi \/ s % SampleStep = 0}

(* random.choice(assets_types), over the first NumAssetTypes entries *)
Choice(vocabulary) ==
    {vocabulary[k] : k \in 1..Min(NumAssetTypes, Len(vocabulary))}

----------------------------------------------------------------------------
(* The rebuild process: run_etl and run_simulation *)

EtlAssetTypes == <<"School", "Library", "Clinic", "Community Center">>

SimAssetTypes == <<"Library", "School", "Community Center", "Park", "Clinic">>

(* the dummy profile run_simulation falls back to *)
DummyProfile ==
    [total_pop |-> 1000, pct_under_18 |-> 200, pct_senior |-> 150,
     pct_white |-> 800, pct_black |-> 50, pct_hispanic |-> 50]

(* no script run of the dashboard is under way *)
NoApp == [status |-> "none", df |-> {}]

(* the locals of a process that has ended are gone *)
LocalsGone ==
    /\ tracts' = <<>>
    /\ demos' = EmptyDict
    /\ df' = NoCsv
    /\ svi_map' = EmptyDict
    /\ i' = 1
    /\ tract_ids' = <<>>

Running ==
    {"fetch_tracts", "fetch_demos", "load_svi", "svi_loaded", "insert",
     "assets", "committed"}

Init ==
    /\ db = NoDb
    /\ pc = "idle"
    /\ prog = "none"
    /\ tracts = <<>>
    /\ demos = EmptyDict
    /\ df = NoCsv
    /\ svi_map = EmptyDict
    /\ i = 1
    /\ tx = EmptyTables
    /\ tract_ids = <<>>
    /\ log = {}
    /\ app = NoApp

(* INSERT INTO raw_tracts VALUES (tid, "Tract " + name, geometry, svi, 0.0,
   0.0, 0.0, json.dumps(d)) *)
TractRow(t, svi, d) ==
    [tract_id |-> t.geoid, name |-> "Tract " \o t.name, geometry |-> t.geometry,
     overall_svi |-> svi, housing_svi |-> 0, poverty_rate |-> 0,
     pop_density |-> 0, demographics_json |-> json_dumps(d)]

(* tract_id TEXT PRIMARY KEY: the insert raises IntegrityError on a
   tract_id the table already holds *)
PrimaryKeyTaken(tid) ==
    \E r \in db.raw_tracts \cup tx.raw_tracts : r.tract_id = tid

NewAssetsOneMore(tid, types) ==
    { [asset_id |-> Cardinality(tx.raw_assets) + k, tract_id |-> tid,
       type |-> IF k \in DOMAIN types THEN types[k] ELSE "School"]
      : k \in 1..(Len(types) + 1) }

(* for _ in range(num_assets): INSERT INTO raw_assets VALUES (uuid4, tid,
   random.choice(assets_types)).  A uuid4 is modelled by the number of the
   insert within the rebuild: fresh, as the table was emptied by reset_db *)
NewAssets(tid, types) ==
    { [asset_id |-> Cardinality(tx.raw_assets) + k, tract_id |-> tid, type |-> types[k]]
      : k \in DOMAIN types }

(* lines 119-121 / 133-135: reset_db(), then the connection is opened *)
Start(p) ==
    /\ pc \in {"idle", "done", "raised", "killed"}
    /\ db' = get_connection(reset_db(db))
    /\ pc' = "fetch_tracts"
    /\ prog' = p
    /\ tracts' = <<>>
    /\ demos' = EmptyDict
    /\ df' = NoCsv
    /\ svi_map' = EmptyDict
    /\ i' = 1
    /\ tx' = EmptyTables
    /\ tract_ids' = <<>>
    /\ log' = {}
    /\ UNCHANGED app

StartEtl == Start("etl")

StartSimulation == Start("sim")

(* tracts = fetch_regional_tracts() / fetch_real_tracts() *)
FetchTracts ==
    /\ pc = "fetch_tracts" /\ app = NoApp
    /\ \E resp \in GeoResponses :
         LET got == IF prog = "etl" THEN fetch_regional_tracts(resp)
                    ELSE fetch_real_tracts(resp)
         IN  /\ tracts' = got.result
             /\ log' = log \cup got.warn
    /\ pc' = "fetch_demos"
    /\ UNCHANGED <<db, prog, demos, df, svi_map, i, tx, tract_ids, app>>

(* demos = fetch_acs_demographics() / fetch_real_demographics() *)
FetchDemos ==
    /\ pc = "fetch_demos" /\ app = NoApp
    /\ \E resp \in AcsResponses :
         /\ demos' = IF prog = "etl" THEN fetch_acs_demographics(resp)
                     ELSE fetch_real_demographics(resp)
         /\ log' = IF resp.ok THEN log
                    ELSE log \cup {IF prog = "etl" THEN "ACS Error" ELSE "ACS Fetch Error"}
    /\ pc' = "load_svi"
    /\ UNCHANGED <<db, prog, tracts, df, svi_map, i, tx, tract_ids, app>>

(* the loader's body up to its return statement: df = pd.read_csv(...),
   then the columns are located and the mapping is built *)
LoadSvi ==
    /\ pc = "load_svi" /\ app = NoApp
    /\ \E csv \in CsvFiles :
         LET got == IF prog = "etl" THEN load_svi_data(csv) ELSE load_svi_from_csv(csv)
         IN  /\ df' = csv
             /\ svi_map' = got.result
             /\ log' = log \cup got.warn
    /\ pc' = "svi_loaded"
    /\ UNCHANGED <<db, prog, tracts, demos, i, tx, tract_ids, app>>

(* the loader returns; run_simulation then leaves at `if not tracts: return`,
   without a commit *)
ReturnSvi ==
    /\ pc = "svi_loaded" /\ app = NoApp
    /\ IF prog = "sim" /\ tracts = <<>>
       THEN /\ log' = log \cup {"No tracts found. Aborting."}
            /\ pc' = "done"
            /\ LocalsGone
       ELSE /\ pc' = "insert"
            /\ df' = NoCsv
            /\ i' = 1
            /\ UNCHANGED <<tracts, demos, svi_map, tract_ids, log>>
    /\ UNCHANGED <<db, prog, tx, app>>

(* an exception leaves the function: the connection is dropped with its
   transaction open, which SQLite rolls back *)
Raise ==
    /\ pc' = "raised"
    /\ tx' = EmptyTables
    /\ LocalsGone
    /\ UNCHANGED <<db, prog, log, app>>

MergeScoreNoDefault(m, tid) == Get(m, tid, 0)

(* svi = svi_map.get(tid, 0.5) *)
MergeScore(m, tid) == Get(m, tid, DefaultSvi)

MergeDemoDummy(m, tid) == Get(m, tid, DummyProfile)

(* d = demos.get(tid, {}) *)
MergeDemo(m, tid) == Get(m, tid, EmptyDict)

(* one pass of run_etl's loop: the tract, then its simulated assets *)
EtlInsert ==
    /\ pc = "insert" /\ prog = "etl" /\ i <= Len(tracts) /\ app = NoApp
    /\ LET t == tracts[i]
           tid == t.geoid
           svi == MergeScore(svi_map, tid)
           d == MergeDemo(demos, tid)
       IN  IF PrimaryKeyTaken(tid) THEN Raise
           ELSE /\ \E num_assets \in Choices(<<0, 3>>, <<svi * 5, (100 - svi) * 5>>) :
                   \E types \in [1..num_assets -> Choice(EtlAssetTypes)] :
                     tx' = [raw_tracts |-> tx.raw_tracts \cup {TractRow(t, Real(svi), d)},
                            raw_assets |-> tx.raw_assets \cup NewAssets(tid, types)]
                /\ i' = i + 1
                /\ UNCHANGED <<db, pc, prog, tracts, demos, df, svi_map, tract_ids, log, app>>

CommitEachInsert ==
    /\ app = NoApp
    /\ pc \in {"insert", "assets"} /\ tx # EmptyTables
    /\ db' = [db EXCEPT !.raw_tracts = db.raw_tracts \cup tx.raw_tracts,
                        !.raw_assets = db.raw_assets \cup tx.raw_assets]
    /\ tx' = EmptyTables
    /\ UNCHANGED <<pc, prog, tracts, demos, df, svi_map, i, tract_ids, log, app>>

(* conn.commit(); conn.close() *)
Commit ==
    /\ app = NoApp
    /\ \/ pc = "insert" /\ prog = "etl" /\ i > Len(tracts)
       \/ pc = "assets" /\ prog = "sim" /\ i > Len(tract_ids)
    /\ db' = [db EXCEPT !.raw_tracts = db.raw_tracts \cup tx.raw_tracts,
                        !.raw_assets = db.raw_assets \cup tx.raw_assets]
    /\ tx' = EmptyTables
    /\ pc' = "committed"
    /\ UNCHANGED <<prog, tracts, demos, df, svi_map, i, tract_ids, log, app>>

(* the count is printed and the function returns *)
Finish ==
    /\ pc = "committed" /\ app = NoApp
    /\ pc' = "done"
    /\ LocalsGone
    /\ UNCHANGED <<db, prog, tx, log, app>>

SimMissingSvi == 50   \* if svi < 0: svi = 0.5

UrbanPrefix == "3604506"

(* d = demos.get(tid, {dummy profile}) *)
SimMergeDemo(m, tid) == Get(m, tid, DummyProfile)

(* tid.startswith("3604506") *)
IsUrban(tid) ==
    Len(tid) >= Len(UrbanPrefix) /\ SubSeq(tid, 1, Len(UrbanPrefix)) = UrbanPrefix

(* the scores the "NEW SVI LOGIC" of run_simulation can give a tract the
   file has a value for: a float, or NaN *)
SimKnownScore(val) ==
    IF val.kind = "nan" THEN Null
    ELSE IF val.v < 0 THEN Real(SimMissingSvi)
    ELSE Real(val.v)

(* the fallback when the file has no value: round(uniform(0.5, 0.95), 2) for
   an urban tract, round(uniform(0.1, 0.6), 2) otherwise *)
SimRandomScores(tid) ==
    IF IsUrban(tid) THEN {Real(s) : s \in UniformRound2(50, 95)}
    ELSE {Real(s) : s \in UniformRound2(10, 60)}

(* one pass of run_simulation's first loop.  A value read from a column of
   text raises TypeError at `svi < 0` *)
SimInsert ==
    /\ pc = "insert" /\ prog = "sim" /\ i <= Len(tracts) /\ app = NoApp
    /\ LET t == tracts[i]
           tid == t.geoid
           d == SimMergeDemo(demos, tid)
           key == [t |-> "str", v |-> tid]
           known == key \in DOMAIN svi_map
       IN  IF (known /\ svi_map[key].kind = "str") \/ PrimaryKeyTaken(tid) THEN Raise
           ELSE /\ \E svi \in (IF known THEN {SimKnownScore(svi_map[key])}
                              ELSE SimRandomScores(tid)) :
                     /\ tx' = [tx EXCEPT !.raw_tracts = @ \cup {TractRow(t, svi, d)}]
                     /\ tract_ids' = Append(tract_ids, <<tid, svi>>)
                /\ i' = i + 1
                /\ UNCHANGED <<db, pc, prog, tracts, demos, df, svi_map, log, app>>

(* the first loop is over and the second one starts: it reads tract_ids
   alone, and tracts, demos and real_svi_data are not read again *)
SimInsertDone ==
    /\ pc = "insert" /\ prog = "sim" /\ i > Len(tracts) /\ app = NoApp
    /\ pc' = "assets"
    /\ i' = 1
    /\ tracts' = <<>>
    /\ demos' = EmptyDict
    /\ svi_map' = EmptyDict
    /\ UNCHANGED <<db, prog, df, tx, tract_ids, log, app>>

(* weights = [svi*6, svi*3, (1-svi)*2, (1-svi)*4] *)
SimWeights(s) == <<s * 6, s * 3, (100 - s) * 2, (100 - s) * 4>>

(* one pass of run_simulation's second loop.  random.choices raises
   ValueError when the total of the weights is NaN or not positive *)
SimAssets ==
    /\ pc = "assets" /\ prog = "sim" /\ i <= Len(tract_ids) /\ app = NoApp
    /\ LET tid == tract_ids[i][1]
           svi == tract_ids[i][2]
           w == SimWeights(svi.v)
       IN  IF svi.null \/ w[1] + w[2] + w[3] + w[4] <= 0 THEN Raise
           ELSE /\ \E num_assets \in Choices(<<0, 1, 2, 4>>, w) :
                   \E types \in [1..num_assets -> Choice(SimAssetTypes)] :
                     tx' = [tx EXCEPT !.raw_assets = @ \cup NewAssets(tid, types)]
                /\ i' = i + 1
                /\ UNCHANGED <<db, pc, prog, tracts, demos, df, svi_map, tract_ids, log, app>>

(* the process is killed while it runs: its transaction is rolled back *)
Crash ==
    /\ pc \in Running /\ app = NoApp
    /\ pc' = "killed"
    /\ tx' = EmptyTables
    /\ LocalsGone
    /\ UNCHANGED <<db, prog, log, app>>

(* app.py, lines 14-22: conn = get_connection(); df = pd.read_sql("SELECT *
   FROM vw_tract_profile", conn).  Without the view the read raises and the
   page shows the error.  The read is one statement and the page is drawn
   from df alone, so the steps of a rebuild are not interleaved between
   AppLoad and AppDone: every position of the read within a rebuild is
   still covered *)
AppLoad ==
    /\ app = NoApp
    /\ db' = get_connection(db)
    /\ app' = IF db.view
              THEN [status |-> "loaded", df |-> vw_tract_profile(db)]
              ELSE [status |-> "error", df |-> {}]
    /\ UNCHANGED <<pc, prog, tracts, demos, df, svi_map, i, tx, tract_ids, log>>

(* the script run ends *)
AppDone ==
    /\ app # NoApp
    /\ app' = NoApp
    /\ UNCHANGED <<db, pc, prog, tracts, demos, df, svi_map, i, tx, tract_ids, log>>

Next ==
    \/ StartEtl
    \/ StartSimulation
    \/ FetchTracts
    \/ FetchDemos
    \/ LoadSvi
    \/ ReturnSvi
    \/ EtlInsert
    \/ SimInsert
    \/ SimInsertDone
    \/ SimAssets
    \/ Commit
    \/ Finish
    \/ Crash
    \/ AppLoad
    \/ AppDone

Spec == Init /\ [][Next]_vars

----------------------------------------------------------------------------
(* The view as a function of the store: any contents the schema admits.
   raw_assets.tract_id carries no foreign key, so a store may hold assets
   whose tract_id names no row of raw_tracts *)

ViewIds == {"36045060100", "36049000200", "36089000300"}

ViewScores == {0, 25, 50, 75, 80, 100}

OrphanId == "36045999999"

ViewOwners == <<"36045060100", "36049000200", OrphanId>>

ViewTractRow(id, s) ==
    [tract_id |-> id, name |-> "Tract " \o id, geometry |-> json_dumps("poly"),
     overall_svi |-> Real(s), housing_svi |-> 0, poverty_rate |-> 0,
     pop_density |-> 0, demographics_json |-> json_dumps(EmptyDict)]

(* c[k] assets owned by ViewOwners[k], numbered owner after owner *)
ViewAssets(c) ==
    UNION { { [asset_id |-> 100 * k + n, tract_id |-> ViewOwners[k], type |-> "School"]
              : n \in 1..c[k] } : k \in DOMAIN ViewOwners }

ViewStores ==
    { [exists |-> TRUE, tables |-> TRUE, view |-> TRUE,
       raw_tracts |-> {ViewTractRow(id, f[id]) : id \in DOMAIN f},
       raw_assets |-> ViewAssets(c)]
      : f \in UNION {[S -> ViewScores] : S \in SUBSET ViewIds},
        c \in [DOMAIN ViewOwners -> 0..MaxViewAssets] }

InitView ==
    /\ db \in ViewStores
    /\ pc = "idle"
    /\ prog = "none"
    /\ tracts = <<>>
    /\ demos = EmptyDict
    /\ df = NoCsv
    /\ svi_map = EmptyDict
    /\ i = 1
    /\ tx = EmptyTables
    /\ tract_ids = <<>>
    /\ log = {}
    /\ app = NoApp

NextView ==
    \/ AppLoad
    \/ AppDone

SpecView == InitView /\ [][NextView]_vars

----------------------------------------------------------------------------
(* Properties *)

Loaded == app.status = "loaded"

(* C1: every row the profile view returns carries exactly the category the
   ordered, first-match rule table gives its (score, asset_count): score >
   0.75 with fewer than 2 assets is "Urgent Desert", else score > 0.75 with
   4 or more is "High-Capacity Hub", else score < 0.25 is "Stable / Low
   Need", else "General Opportunity".  Score > 0.75 with 2 or 3 assets, and
   a score of exactly 0.75 or 0.25, are "General Opportunity"; two rows with
   the same (score, asset_count) carry the same category *)
C1_CategoryRuleTable ==
    Loaded =>
      /\ \A r \in app.df :
           LET s == r.overall_svi.v
               n == r.count_assets
           IN  /\ r.context_tag =
                    (IF s > 75 /\ n < 2 THEN "Urgent Desert"
                     ELSE IF s > 75 /\ n >= 4 THEN "High-Capacity Hub"
                     ELSE IF s < 25 THEN "Stable / Low Need"
                     ELSE "General Opportunity")
               /\ (s > 75 /\ n \in {2, 3}) => r.context_tag = "General Opportunity"
               /\ s \in {25, 75} => r.context_tag = "General Opportunity"
      /\ \A r1, r2 \in app.df :
           (r1.overall_svi = r2.overall_svi /\ r1.count_assets = r2.count_assets)
             => r1.context_tag = r2.context_tag

(* a read that returns a row of the gap case and a row on each threshold *)
C1_Witness ==
    /\ Loaded
    /\ \E r \in app.df :
         r.overall_svi.v = 80 /\ r.count_assets = 3
         /\ r.context_tag = "General Opportunity"
    /\ \E r \in app.df : r.overall_svi.v = 75 /\ r.count_assets = 0
    /\ \E r \in app.df : r.overall_svi.v = 25

(* C2: in every store state, whichever entry point built it and whatever
   the vulnerability source holds, every persisted unit has a score within
   [0,1] *)
C2_ScoreInUnitInterval ==
    \A r \in db.raw_tracts :
      ~r.overall_svi.null /\ r.overall_svi.v >= 0 /\ r.overall_svi.v <= 100

(* C3: when run_etl has committed, the stored tract ids are exactly the ids
   of the geography fetch result, one row each, and each row holds the
   loader's score for its id if the mapping has one and 0.5 otherwise, and
   the fetcher's profile for its id if present and the empty profile
   otherwise *)
C3_EtlLeftJoin ==
    (pc = "committed" /\ prog = "etl") =>
      /\ {r.tract_id : r \in db.raw_tracts} = {tracts[k].geoid : k \in DOMAIN tracts}
      /\ Cardinality(db.raw_tracts) = Cardinality({tracts[k].geoid : k \in DOMAIN tracts})
      /\ \A r \in db.raw_tracts :
           /\ r.overall_svi =
                [null |-> FALSE,
                 v |-> IF r.tract_id \in DOMAIN svi_map THEN svi_map[r.tract_id] ELSE 50]
           /\ r.demographics_json =
                <<"json", IF r.tract_id \in DOMAIN demos THEN demos[r.tract_id]
                          ELSE EmptyDict>>

(* a committed run_etl with one unit found in both sources and one in none *)
C3_Witness ==
    /\ pc = "committed" /\ prog = "etl"
    /\ \E r \in db.raw_tracts :
         /\ r.tract_id \in DOMAIN svi_map /\ r.tract_id \in DOMAIN demos
         /\ r.overall_svi.v = 100
    /\ \E r \in db.raw_tracts :
         /\ r.tract_id \notin DOMAIN svi_map /\ r.tract_id \notin DOMAIN demos
         /\ r.overall_svi.v = 50 /\ r.demographics_json = <<"json", EmptyDict>>

(* C4: every tract id in the store, committed or inserted and not yet
   committed, and every id of a geography fetch result, has length exactly
   11, whatever the geography service returned *)
C4_TractIdLength ==
    /\ \A r \in db.raw_tracts \cup tx.raw_tracts : Len(r.tract_id) = 11
    /\ \A k \in DOMAIN tracts : Len(tracts[k].geoid) = 11

(* a committed rebuild that persisted two tracts *)
C4_Witness ==
    /\ pc = "committed"
    /\ Cardinality(db.raw_tracts) = 2
    /\ \A r \in db.raw_tracts : Len(r.tract_id) = 11

(* C5 as stated: for a store of N units the ranks of one read are exactly
   the positions 1..N, each taken by one unit, ties included *)
C5_RanksArePositions ==
    Loaded => {r.local_svi_rank : r \in app.df} = 1..Cardinality(app.df)

(* C5 as amended: the rank of a unit is one more than the number of
   persisted units with a strictly greater score, so units with equal scores
   share a rank; the ranks are the positions 1..N exactly when no two units
   share a score *)
C5_RankCountsGreaterScores ==
    Loaded =>
      /\ \A r \in app.df :
           r.local_svi_rank =
             1 + Cardinality({u \in app.df : u.overall_svi.v > r.overall_svi.v})
      /\ \A r, u \in app.df :
           r.overall_svi = u.overall_svi => r.local_svi_rank = u.local_svi_rank
      /\ ({r.local_svi_rank : r \in app.df} = 1..Cardinality(app.df))
           <=> (\A r, u \in app.df :
                  r.overall_svi = u.overall_svi => r.tract_id = u.tract_id)

(* a read of a store built by run_etl in which two units both hold the
   default 0.5 and both rank first *)
C5_Witness ==
    /\ Loaded /\ prog = "etl"
    /\ \E r, u \in app.df :
         /\ r.tract_id # u.tract_id
         /\ r.overall_svi.v = 50 /\ u.overall_svi.v = 50
         /\ r.local_svi_rank = 1 /\ u.local_svi_rank = 1

(* C6: in one read, a smaller rank never goes with a smaller score, and the
   rank is taken over all units of the store: a strictly greater score has a
   strictly smaller rank *)
C6_RankFollowsScore ==
    Loaded =>
      \A a, b \in app.df :
        /\ a.local_svi_rank < b.local_svi_rank => a.overall_svi.v >= b.overall_svi.v
        /\ a.overall_svi.v > b.overall_svi.v => a.local_svi_rank < b.local_svi_rank

(* a read of three units, two of them tied behind the first *)
C6_Witness ==
    /\ Loaded
    /\ Cardinality(app.df) = 3
    /\ \E a, b, c \in app.df :
         /\ b.tract_id # c.tract_id
         /\ a.local_svi_rank = 1 /\ b.local_svi_rank = 2 /\ c.local_svi_rank = 2
         /\ a.overall_svi.v > b.overall_svi.v

(* C7: the view returns exactly one row per persisted unit, whose
   asset_count is the number of asset records owned by that unit's id: 0 for
   a unit that owns none, and nothing for assets owned by an id that is no
   persisted unit *)
C7_OneRowPerUnitWithItsAssets ==
    Loaded =>
      /\ {r.tract_id : r \in app.df} = {t.tract_id : t \in db.raw_tracts}
      /\ Cardinality(app.df) = Cardinality(db.raw_tracts)
      /\ \A r \in app.df :
           r.count_assets = Cardinality({a \in db.raw_assets : a.tract_id = r.tract_id})

(* a read of a store with a unit owning no asset, a unit owning some, and
   assets owned by no persisted unit *)
C7_Witness ==
    /\ Loaded
    /\ \E r \in app.df : r.count_assets = 0
    /\ \E r \in app.df : r.count_assets = 2
    /\ \E a \in db.raw_assets : \A t \in db.raw_tracts : a.tract_id # t.tract_id

(* the loader of run_etl has read a file whose columns it recognises; the
   file of the model has the id column first and the score column second *)
EtlLoaded ==
    /\ pc = "svi_loaded" /\ prog = "etl" /\ df.ok
    /\ df.columns[1] \in {"FIPS", "geoid"}
    /\ df.columns[2] \in {"RPL_THEMES", "svi"}

(* the rows of the file for id f whose score text is a number within [0,1] *)
KeptRows(f) ==
    {k \in DOMAIN df.rows : df.rows[k][1] = f /\ df.rows[k][2] \in {"0", "0.8", "1"}}

(* C8: the mapping the loader of run_etl returns has an entry for an id
   exactly when the file has a row for it whose score is a number within
   [0,1], endpoints included, and the entry is that row's score (the last
   such row's): a row whose score does not parse, is empty, or lies outside
   [0,1] adds nothing and is not clamped to 0 or 1.  A unit the mapping has
   no entry for, as one whose only row carries -999, is stored by run_etl
   with score 0.5 *)
C8_LoaderFiltersScores ==
    /\ EtlLoaded =>
         /\ DOMAIN svi_map = {f \in FipsCellPool : KeptRows(f) # {}}
         /\ \A f \in DOMAIN svi_map :
              LET last == CHOOSE k \in KeptRows(f) : \A j \in KeptRows(f) : j <= k
              IN  svi_map[f] = (CASE df.rows[last][2] = "0" -> 0
                                  [] df.rows[last][2] = "0.8" -> 80
                                  [] df.rows[last][2] = "1" -> 100)
         /\ \A k \in DOMAIN df.rows :
              (df.rows[k][2] \in {"-999", "1.5", "", "abc"} /\ df.rows[k][1] \in DOMAIN svi_map)
                => \E j \in KeptRows(df.rows[k][1]) : j # k
    /\ (prog = "etl" /\ pc \in {"insert", "committed"}) =>
         \A r \in tx.raw_tracts \cup db.raw_tracts :
           r.tract_id \notin DOMAIN svi_map => r.overall_svi = [null |-> FALSE, v |-> 50]

(* the loader has read a file whose only row for a tract of the geography
   carries -999: the mapping has no entry for it and the merge gives 0.5 *)
C8_Witness ==
    /\ EtlLoaded
    /\ \E k \in DOMAIN tracts :
         /\ \E j \in DOMAIN df.rows :
              df.rows[j][1] = tracts[k].geoid /\ df.rows[j][2] = "-999"
         /\ \A j \in DOMAIN df.rows :
              df.rows[j][1] = tracts[k].geoid => df.rows[j][2] = "-999"
         /\ tracts[k].geoid \notin DOMAIN svi_map
         /\ MergeScore(svi_map, tracts[k].geoid) = 50

(* C9: no source failure makes run_etl raise.  After a failed geography
   fetch the list of tracts is empty, nothing is inserted, and the run
   commits a store with no unit and no asset.  After a failed demographics
   fetch every committed unit holds the empty profile, and after a loader
   that could not locate its columns (or could not read the file) every
   committed unit holds the score 0.5, and in both cases every unit of the
   geography is committed.  The only step of run_etl that raises is the
   insert of a tract id the table already holds *)
C9_SourceFailureNeverAborts ==
    /\ [](prog = "etl" =>
           /\ "Geo Error" \in log =>
                /\ pc # "raised"
                /\ tracts = <<>> /\ tx = EmptyTables
                /\ pc \in {"committed", "done"} =>
                     (db.view /\ db.raw_tracts = {} /\ db.raw_assets = {})
           /\ ("ACS Error" \in log /\ pc = "committed") =>
                /\ {r.tract_id : r \in db.raw_tracts} = {tracts[k].geoid : k \in DOMAIN tracts}
                /\ \A r \in db.raw_tracts : r.demographics_json = <<"json", EmptyDict>>
           /\ (log \cap {"Could not identify FIPS or SVI columns", "SVI CSV Load Error"} # {}
                 /\ pc = "committed") =>
                /\ {r.tract_id : r \in db.raw_tracts} = {tracts[k].geoid : k \in DOMAIN tracts}
                /\ \A r \in db.raw_tracts : r.overall_svi = [null |-> FALSE, v |-> 50])
    /\ [][(prog = "etl" /\ pc # "raised" /\ pc' = "raised") =>
            (pc = "insert" /\ i <= Len(tracts) /\ PrimaryKeyTaken(tracts[i].geoid))]_vars

(* a committed run_etl whose demographics fetch failed and whose loader
   found no columns, with both units of the geography stored *)
C9_Witness ==
    /\ pc = "committed" /\ prog = "etl"
    /\ "ACS Error" \in log
    /\ "Could not identify FIPS or SVI columns" \in log
    /\ Len(tracts) = 2
    /\ Cardinality(db.raw_tracts) = 2
    /\ \A r \in db.raw_tracts :
         r.overall_svi.v = 50 /\ r.demographics_json = <<"json", EmptyDict>>

(* C10: from every store state reset_db gives the store with no unit, no
   asset and the view defined and returning no row, and a second reset_db
   changes nothing; a rebuild starts from that store, and the store it
   commits holds the rows it inserted and no other *)
C10_ResetDestructiveIdempotent ==
    /\ [](/\ reset_db(db) = FreshDb
          /\ vw_tract_profile(reset_db(db)) = {}
          /\ reset_db(reset_db(db)) = reset_db(db))
    /\ [][(pc # "fetch_tracts" /\ pc' = "fetch_tracts") => db' = FreshDb]_vars
    /\ [][(pc # "committed" /\ pc' = "committed") =>
            (db'.raw_tracts = tx.raw_tracts /\ db'.raw_assets = tx.raw_assets)]_vars

(* a rebuild has just reset a store whose units a page read before still
   shows *)
C10_Witness ==
    /\ pc = "fetch_tracts"
    /\ app.status = "loaded" /\ app.df # {}
    /\ db = FreshDb

(* C11: every percentage field of every profile fetch_acs_demographics
   returns (the five count-derived shares and the two service-supplied
   rates) lies in [0,100], also for a row whose sub-count exceeds the total
   or whose rate is a negative missing-data value *)
C11_PercentagesInRange ==
    prog = "etl" =>
      \A g \in DOMAIN demos :
        \A f \in {"pct_under_18", "pct_senior", "pct_white", "pct_black",
                  "pct_hispanic", "pct_uninsured", "pct_broadband"} :
          demos[g][f] >= 0 /\ demos[g][f] <= 1000

(* the asset records of a table set owned by tract id t *)
OwnedAssets(assets, t) == {a \in assets : a.tract_id = t}

(* C12: in run_etl each pass of the loop inserts one unit and either 0 or 3
   asset records, all owned by that unit; so in every store of run_etl,
   committed or not yet, every asset is owned by a unit and every unit owns 0
   or 3, and the view of such a store gives every unit an asset_count of 0
   or 3, never "High-Capacity Hub", and for a score above 0.75 "Urgent
   Desert" exactly with 0 assets and "General Opportunity" with 3 *)
C12_EtlAssetsZeroOrThree ==
    /\ [](prog = "etl" =>
           /\ \A t \in db.raw_tracts \cup tx.raw_tracts :
                Cardinality(OwnedAssets(db.raw_assets \cup tx.raw_assets, t.tract_id))
                  \in {0, 3}
           /\ \A a \in db.raw_assets \cup tx.raw_assets :
                \E t \in db.raw_tracts \cup tx.raw_tracts : t.tract_id = a.tract_id
           /\ \A r \in vw_tract_profile(db) :
                /\ r.count_assets \in {0, 3}
                /\ r.context_tag # "High-Capacity Hub"
                /\ r.overall_svi.v > 75 =>
                     /\ r.context_tag = "Urgent Desert" <=> r.count_assets = 0
                     /\ r.count_assets = 3 => r.context_tag = "General Opportunity")
    /\ [][(prog = "etl" /\ pc = "insert" /\ pc' = "insert" /\ i' = i + 1) =>
            LET new == tx'.raw_assets \ tx.raw_assets
            IN  /\ Cardinality(new) \in {0, 3}
                /\ \A a \in new : a.tract_id = tracts[i].geoid
                /\ tx.raw_assets \subseteq tx'.raw_assets
                /\ {t.tract_id : t \in tx'.raw_tracts \ tx.raw_tracts} = {tracts[i].geoid}]_vars

(* a committed run_etl with a unit of score 0.8 that received 3 assets and
   is "General Opportunity" *)
C12_Witness ==
    /\ pc = "committed" /\ prog = "etl"
    /\ \E r \in vw_tract_profile(db) :
         /\ r.overall_svi.v = 80
         /\ r.count_assets = 3
         /\ r.context_tag = "General Opportunity"
         /\ Cardinality(OwnedAssets(db.raw_assets, r.tract_id)) = 3

(* the positions of a rebuild between its reset and its commit *)
PreCommit ==
    {"fetch_tracts", "fetch_demos", "load_svi", "svi_loaded", "insert"}

(* C13: run_etl makes its inserts visible by one commit after the last
   insert.  From its reset to that commit the store other connections see
   has the view and no unit and no asset, and a page loaded in between
   shows no row; a run killed or raising in between leaves that empty store;
   the commit publishes the inserts of all units of the geography at once,
   and a page loaded after it shows the view of that complete store.  The
   store changes in no other step than a reset, a commit, and the creation
   of the empty file by a reader's connection *)
C13_SingleCommitNoPartialStore ==
    /\ [](prog = "etl" =>
           /\ pc \in PreCommit => db = FreshDb
           /\ (pc \in PreCommit \ {"fetch_tracts"} /\ Loaded) => app.df = {}
           /\ pc = "committed" =>
                /\ tx = EmptyTables
                /\ {r.tract_id : r \in db.raw_tracts} = {tracts[k].geoid : k \in DOMAIN tracts}
                /\ Loaded => app.df = vw_tract_profile(db))
    /\ [][(prog = "etl" /\ pc \in PreCommit /\ pc' \in {"killed", "raised"}) =>
            (db' = FreshDb /\ tx' = EmptyTables)]_vars
    /\ [][(prog = "etl" /\ pc # "committed" /\ pc' = "committed") =>
            /\ pc = "insert" /\ i > Len(tracts)
            /\ db'.raw_tracts = tx.raw_tracts /\ db'.raw_assets = tx.raw_assets
            /\ {r.tract_id : r \in tx.raw_tracts} = {tracts[k].geoid : k \in DOMAIN tracts}]_vars
    /\ [][db' # db =>
            \/ pc' = "fetch_tracts" /\ pc # "fetch_tracts" /\ db' = FreshDb
            \/ pc' = "committed" /\ pc # "committed"
            \/ ~db.exists /\ db' = get_connection(db)]_vars

(* a page loaded in the middle of run_etl's loop, with a unit and its assets
   inserted and not committed: it shows no row *)
C13_Witness ==
    /\ prog = "etl" /\ pc = "insert" /\ i <= Len(tracts)
    /\ tx.raw_tracts # {} /\ tx.raw_assets # {}
    /\ Loaded /\ app.df = {}
    /\ db = FreshDb

====
